---- MODULE Spec2Model ----
(***************************************************************************)
(* Turn-based multi-agent collector environments of lfwa/datacollect:      *)
(*   - the graph variant   (datacollect/environments/graph_collector)      *)
(*   - the continuous variant (collector/environment/collector.py)         *)
(* Both are PettingZoo AEC environments: raw_env.reset and raw_env.step    *)
(* drive an agent_selector and the AECEnv helpers _was_dead_step and       *)
(* _accumulate_rewards.  Agents "agent_i" are modelled by the integer i,   *)
(* Python's None by the integer None, a dict by a function on its keys.    *)
(***************************************************************************)
EXTENDS Integers, Naturals, Sequences, FiniteSets, TLC

\* ------------------------------------------------------------------ bounds
MaxBudget == 2
MaxSteps == 5
MaxStepsFour == 7

\* --------------------------------------------------------- program constants
None == -1
cheat_cost == 500
caught_probability_num == 1
caught_probability_den == 2
SCREEN_WIDTH == 1000
SCREEN_HEIGHT == 1000

VARIABLES
    \* constructor arguments (fixed for the life of the environment)
    variant, graph, point_labels, init_agent_labels,
    point_positions, agent_positions, max_collect, possible_agents,
    \* environment state
    has_reset, agents, agent_selection, _current_agent, _skip_agent_selection,
    collectors, points, rewards, _cumulative_rewards, cumulative_rewards,
    terminations, truncations, terminate, truncate, iteration,
    \* the result of the last call, the action passed to the last step call
    \* (None after a reset), and the episode's record of completed steps:
    \* <<agent, "live" or "dead", agent terminated afterwards>>
    outcome, last_action, log,
    \* the reset calls made in a row since the last other call (counted to 2),
    \* and the arguments and the value of the last call when it was reward():
    \* <<cur_node, new_node>> and <<value>>, <<>> otherwise
    resets, reward_args, returned

config == <<variant, graph, point_labels, init_agent_labels,
            point_positions, agent_positions, max_collect, possible_agents>>

vars == <<variant, graph, point_labels, init_agent_labels,
          point_positions, agent_positions, max_collect, possible_agents,
          has_reset, agents, agent_selection, _current_agent,
          _skip_agent_selection, collectors, points, rewards,
          _cumulative_rewards, cumulative_rewards, terminations, truncations,
          terminate, truncate, iteration, outcome, last_action, log,
          resets, reward_args, returned>>

\* ----------------------------------------------------------------- helpers
Range(s) == {s[i] : i \in DOMAIN s}

\* list.remove(x) leaving the remaining elements in reverse order.
Remove_reversed(s, x) ==
    LET t == SelectSeq(s, LAMBDA y : y # x)
    IN  [i \in 1..Len(t) |-> t[Len(t) + 1 - i]]

\* Python list.remove(x): drops the first occurrence of x.
Remove(s, x) ==
    LET i == CHOOSE j \in DOMAIN s : s[j] = x /\ \A k \in 1..(j - 1) : s[k] # x
    IN  SubSeq(s, 1, i - 1) \o SubSeq(s, i + 1, Len(s))

\* Python del d[k].
Del(d, k) == [x \in (DOMAIN d) \ {k} |-> d[x]]

\* any(d.values()) and not any(d.values()) in the place of all(d.values()).
AnyOf(d) == \E k \in DOMAIN d : d[k]
NoneOf(d) == \A k \in DOMAIN d : ~d[k]

\* Python all(d.values()).
All(d) == \A k \in DOMAIN d : d[k]

\* Python seq[i] with a 0-based index that may be negative.
PyIndex(s, i) == IF i >= 0 THEN s[i + 1] ELSE s[Len(s) + i + 1]

\* ceil(sqrt(n)) and ceil(a / b) on naturals.
CeilSqrt(n) == CHOOSE r \in 0..n : r * r >= n /\ (r = 0 \/ (r - 1) * (r - 1) < n)
CeilDiv(a, b) == (a + b - 1) \div b

\* Euclidean norm of an integer vector (exact on the coordinates used here).
Norm(d) ==
    LET n == d[1] * d[1] + d[2] * d[2]
    IN  CHOOSE r \in 0..n : r * r <= n /\ (r + 1) * (r + 1) > n

\* ------------------------------------------------------------ the topology
\* A networkx graph: its node labels, whether it is a DiGraph, and the weight
\* of every edge it holds, keyed by (from, to).  An undirected edge is held in
\* both directions.
SpecGraph ==
    [nodes |-> 0..2, directed |-> FALSE,
     weight |-> (<<0, 1>> :> 2) @@ (<<1, 0>> :> 2) @@ (<<1, 2>> :> 3)
                @@ (<<2, 1>> :> 3) @@ (<<2, 2>> :> 1)]

\* A directed graph with a self-loop and an isolated node (3).
DiGraph ==
    [nodes |-> 0..3, directed |-> TRUE,
     weight |-> (<<0, 1>> :> 2) @@ (<<1, 2>> :> 3) @@ (<<2, 2>> :> 1)
                @@ (<<2, 0>> :> 4)]

\* The continuous variant has no graph.
NoGraph == [nodes |-> {}, directed |-> FALSE, weight |-> <<>>]

\* neighbors() following the edges of a directed graph in both directions.
neighbors_undirected(g, node) ==
    {n \in g.nodes : <<node, n>> \in DOMAIN g.weight
                      \/ <<n, node>> \in DOMAIN g.weight}

neighbors(g, node) == {n \in g.nodes : <<node, n>> \in DOMAIN g.weight}

nodes_per_row(g) == CeilSqrt(Cardinality(g.nodes))
node_width(g) == SCREEN_WIDTH \div nodes_per_row(g)
node_height(g) == SCREEN_HEIGHT \div CeilDiv(Cardinality(g.nodes), nodes_per_row(g))

_get_node_position(g, node_label) ==
    <<(node_label % nodes_per_row(g)) * node_width(g),
      (node_label \div nodes_per_row(g)) * node_height(g)>>

\* gymnasium.spaces.Discrete(n, start=0).contains
action_space_contains(n, action) == action \in 0..(n - 1)

\* ------------------------------------------------------ Point and Collector
is_collected(collect_counter) == collect_counter > 0

Collector(pos, label) ==
    [position |-> pos, label |-> label, path |-> <<pos>>,
     total_points_collected |-> 0, unique_points_collected |-> 0,
     cheated |-> 0]

\* move() replacing the path by the destination.
move_path_restarted(collector, position, label) ==
    [collector EXCEPT !.position = position, !.label = label,
                      !.path = <<position>>]

move(collector, position, label) ==
    [collector EXCEPT !.position = position, !.label = label,
                      !.path = Append(@, position)]

\* collect() counting every collection as a first one.
collect_always_unique(collector, collect_counter) ==
    [collector EXCEPT
        !.total_points_collected = @ + 1,
        !.unique_points_collected = @ + 1,
        !.cheated = IF is_collected(collect_counter) THEN @ + 1 ELSE @]

\* Collector.collect(point): the collector's side, given the point's counter
\* before this collection.
collect(collector, collect_counter) ==
    [collector EXCEPT
        !.total_points_collected = @ + 1,
        !.unique_points_collected =
            IF is_collected(collect_counter) THEN @ ELSE @ + 1,
        !.cheated = IF is_collected(collect_counter) THEN @ + 1 ELSE @]

\* Collector.collect(point): the point's side.
point_collect(pts, key) == [pts EXCEPT ![key] = @ + 1]

\* ------------------------------------------------------- cost / reward model
cheating_cost == (cheat_cost * caught_probability_num) \div caught_probability_den

has_edge(g, cur_node, new_node) == <<cur_node, new_node>> \in DOMAIN g.weight

\* reward() without the cheating cost.
reward_no_penalty(g, pts, cur_node, new_node) == -g.weight[<<cur_node, new_node>>]

\* reward() returning the cost without negating it.
reward_as_cost(g, pts, cur_node, new_node) ==
    g.weight[<<cur_node, new_node>>]
    + (IF new_node \in DOMAIN pts /\ is_collected(pts[new_node])
       THEN cheating_cost ELSE 0)

\* raw_env.reward of the graph variant, for an existing edge.
reward(g, pts, cur_node, new_node) ==
    LET cost == g.weight[<<cur_node, new_node>>]
    IN  IF new_node \in DOMAIN pts /\ is_collected(pts[new_node])
        THEN -(cost + cheating_cost)
        ELSE -cost

\* reward() measuring the distance after the collector was moved to the point.
reward_c_from_target(collector_position, point_position, collect_counter) ==
    IF is_collected(collect_counter) THEN -cheating_cost ELSE 0

\* raw_env.reward of the continuous variant.
reward_c(collector_position, point_position, collect_counter) ==
    LET dist == Norm(<<collector_position[1] - point_position[1],
                       collector_position[2] - point_position[2]>>)
    IN  IF is_collected(collect_counter)
        THEN -(dist + cheating_cost)
        ELSE -dist

\* step() calling collect() before reward().
points_after_collect(before, after) == after

\* The point state reward() reads in step(): the one before this step's
\* collect().
points_at_reward(before, after) == before

\* ------------------------------------------------------------ agent_selector
\* agent_selector.next() on the list the environment shares with it.
selector_next(agent_order, current) ==
    LET c == (current + 1) % Len(agent_order)
    IN  [current |-> c, selected |-> PyIndex(agent_order, c - 1)]

\* ----------------------------------------------------------- AECEnv helpers
_clear_rewards(rw) == [a \in DOMAIN rw |-> 0]

_accumulate_rewards(cum, rw) ==
    [a \in DOMAIN cum |-> IF a \in DOMAIN rw THEN cum[a] + rw[a] ELSE cum[a]]

\* ------------------------------------------------------------ configurations
AgentCounts == {1, 2, 3}
Budgets == 0..MaxBudget

\* The graph configurations: the graph, the point labels and the initial
\* placement of n agents.
GraphConfigs(n) ==
    {[graph |-> SpecGraph, point_labels |-> <<2>>,
      init_agent_labels |-> [i \in 1..n |-> (i - 1) % 3]],
     [graph |-> SpecGraph, point_labels |-> <<1, 2>>,
      init_agent_labels |-> [i \in 1..n |-> 1]],
     [graph |-> DiGraph, point_labels |-> <<2>>,
      init_agent_labels |-> [i \in 1..n |-> i % 4]]}

PointPositionLists ==
    {<<<<0, 0>>, <<3, 4>>>>, <<<<0, 0>>, <<3, 0>>, <<3, 4>>>>}

AgentStart == <<<<0, 4>>, <<3, 0>>, <<0, 0>>, <<3, 4>>>>
PositionPlacement(n) == [i \in 1..n |-> AgentStart[((i - 1) % Len(AgentStart)) + 1]]

\* raw_env.__init__: the state before the first reset.
Constructed ==
    /\ has_reset = FALSE
    /\ agents = possible_agents
    /\ agent_selection = None
    /\ _current_agent = 0
    /\ _skip_agent_selection = None
    /\ collectors = <<>>
    /\ points = <<>>
    /\ rewards = <<>>
    /\ _cumulative_rewards = <<>>
    /\ cumulative_rewards = <<>>
    /\ terminations = <<>>
    /\ truncations = <<>>
    /\ terminate = FALSE
    /\ truncate = FALSE
    /\ iteration = 0
    /\ outcome = "init"
    /\ last_action = None
    /\ log = <<>>
    /\ resets = 0
    /\ reward_args = <<>>
    /\ returned = <<>>

InitGraph ==
    /\ variant = "graph"
    /\ \E n \in AgentCounts :
        /\ possible_agents = [i \in 1..n |-> i - 1]
        /\ \E c \in GraphConfigs(n) :
            /\ graph = c.graph
            /\ point_labels = c.point_labels
            /\ init_agent_labels = c.init_agent_labels
        /\ max_collect \in [0..(n - 1) -> Budgets]
    /\ point_positions = <<>>
    /\ agent_positions = <<>>
    /\ Constructed

InitContinuous ==
    /\ variant = "continuous"
    /\ graph = NoGraph
    /\ point_labels = <<>>
    /\ init_agent_labels = <<>>
    /\ point_positions \in PointPositionLists
    /\ \E n \in AgentCounts :
        /\ possible_agents = [i \in 1..n |-> i - 1]
        /\ agent_positions = PositionPlacement(n)
        /\ max_collect \in [0..(n - 1) -> Budgets]
    /\ Constructed

Init == InitGraph \/ InitContinuous

\* Four agents with budgets of 1 or 2: on a single node that is a point and
\* has a self-loop, or on the plane with a single point.
LoopGraph == [nodes |-> 0..0, directed |-> FALSE, weight |-> (<<0, 0>> :> 1)]

InitFour ==
    /\ possible_agents = <<0, 1, 2, 3>>
    /\ max_collect \in [0..3 -> 1..2]
    /\ \/ /\ variant = "graph"
          /\ graph = LoopGraph
          /\ point_labels = <<0>>
          /\ init_agent_labels = <<0, 0, 0, 0>>
          /\ point_positions = <<>>
          /\ agent_positions = <<>>
       \/ /\ variant = "continuous"
          /\ graph = NoGraph
          /\ point_labels = <<>>
          /\ init_agent_labels = <<>>
          /\ point_positions = <<<<3, 4>>>>
          /\ agent_positions = PositionPlacement(4)
    /\ Constructed

\* ------------------------------------------------------------------- reset
\* _create_collectors / _create_points of either variant.
_create_collectors ==
    IF variant = "graph"
    THEN [a \in Range(possible_agents) |->
            Collector(_get_node_position(graph, init_agent_labels[a + 1]),
                      init_agent_labels[a + 1])]
    ELSE [a \in Range(possible_agents) |-> Collector(agent_positions[a + 1], None)]

\* _create_points appending to the points of the last episode.
_create_points_appended ==
    IF variant = "graph"
    THEN [l \in Range(point_labels) |-> IF has_reset THEN points[l] ELSE 0]
    ELSE [i \in 0..(Cardinality(DOMAIN points) + Len(point_positions) - 1) |-> 0]

_create_points ==
    IF variant = "graph"
    THEN [l \in Range(point_labels) |-> 0]
    ELSE [i \in 0..(Len(point_positions) - 1) |-> 0]

\* raw_env.reset.  agent_selector.reinit puts the cursor at 0 and reset()
\* returns next(); _skip_agent_selection is not an attribute reset() assigns.
Reset ==
    /\ agents' = possible_agents
    /\ LET s == selector_next(possible_agents, 0)
       IN  /\ _current_agent' = s.current
           /\ agent_selection' = s.selected
    /\ collectors' = _create_collectors
    /\ points' = _create_points
    /\ iteration' = 0
    /\ has_reset' = TRUE
    /\ terminate' = FALSE
    /\ truncate' = FALSE
    /\ rewards' = [a \in Range(possible_agents) |-> 0]
    /\ _cumulative_rewards' = [a \in Range(possible_agents) |-> 0]
    /\ terminations' = [a \in Range(possible_agents) |-> FALSE]
    /\ truncations' = [a \in Range(possible_agents) |-> FALSE]
    /\ cumulative_rewards' =
         IF variant = "graph" THEN [a \in Range(possible_agents) |-> 0]
         ELSE cumulative_rewards
    /\ outcome' = "reset"
    /\ last_action' = None
    /\ log' = <<>>
    /\ resets' = IF resets < 2 THEN resets + 1 ELSE resets
    /\ reward_args' = <<>>
    /\ returned' = <<>>
    /\ UNCHANGED <<config, _skip_agent_selection>>

\* -------------------------------------------------------------------- step
frame == <<has_reset, agents, agent_selection, _current_agent,
           _skip_agent_selection, collectors, points, rewards,
           _cumulative_rewards, cumulative_rewards, terminations, truncations,
           terminate, truncate, iteration, log>>

\* The record of a call of step.
StepCalled == resets' = 0 /\ reward_args' = <<>> /\ returned' = <<>>

\* step() counting the call before it validates it.
Raise_counted(error, action) ==
    /\ outcome' = error
    /\ last_action' = action
    /\ StepCalled
    /\ iteration' = iteration + 1
    /\ UNCHANGED <<config, has_reset, agents, agent_selection, _current_agent,
                   _skip_agent_selection, collectors, points, rewards,
                   _cumulative_rewards, cumulative_rewards, terminations,
                   truncations, terminate, truncate, log>>

\* A step(action) call that raises before it has changed anything.
Raise(error, action) ==
    /\ outcome' = error
    /\ last_action' = action
    /\ StepCalled
    /\ UNCHANGED <<config, frame>>

\* The values an action may take: None, every member of the action space, and
\* one value outside it.
ActionSpaceSize ==
    IF variant = "graph" THEN Cardinality(graph.nodes) ELSE Len(point_positions)
Actions == {None} \cup 0..ActionSpaceSize

\* The live steps completed in this episode (the graph variant's iteration).
LiveSteps == Cardinality({i \in DOMAIN log : log[i][2] = "live"})

\* The live steps explored per episode.
StepBound == IF Len(possible_agents) > 3 THEN MaxStepsFour ELSE MaxSteps

\* step() without its test for a dead agent.
is_dead_unchecked(agent) == FALSE

\* step: "if self.terminations[agent] or self.truncations[agent]".
is_dead(agent) == terminations[agent] \/ truncations[agent]

\* The termination update rebuilding the whole mapping from the acting agent.
update_terminations_rebuilt(term, agent, total_points_collected, budget) ==
    [a \in DOMAIN term |-> a = agent /\ total_points_collected >= budget]

\* step: "Update termination and truncation for agent."
update_terminations(term, agent, total_points_collected, budget) ==
    IF total_points_collected >= budget
    THEN [term EXCEPT ![agent] = TRUE]
    ELSE term

\* step() without the guard, as in the continuous variant.
guard_resync_missing(selection, ags) == FALSE

\* step of the graph variant, after a dead step: "Guard against first agent
\* dying first".
guard_resync(selection, ags) == selection \notin Range(ags) /\ ags # <<>>

\* step() marking the environment as reset when its assertion fails.
StepNotReset_marks ==
    /\ ~has_reset
    /\ \E action \in Actions :
        /\ outcome' = "AssertionError"
        /\ last_action' = action
        /\ StepCalled
        /\ has_reset' = TRUE
        /\ UNCHANGED <<config, agents, agent_selection, _current_agent,
                       _skip_agent_selection, collectors, points, rewards,
                       _cumulative_rewards, cumulative_rewards, terminations,
                       truncations, terminate, truncate, iteration, log>>

\* step before any reset: the assertion on has_reset fails.
StepNotReset ==
    /\ ~has_reset
    /\ \E action \in Actions : Raise("AssertionError", action)

\* step when agent_selection has no entry in terminations (it was pruned):
\* the lookup self.terminations[agent] raises.
StepPruned ==
    /\ has_reset
    /\ agent_selection \notin DOMAIN terminations
    /\ \E action \in Actions : Raise("KeyError", action)

\* step for a dead agent with an action other than None: _was_dead_step raises.
StepDeadInvalid ==
    /\ has_reset
    /\ agent_selection \in DOMAIN terminations
    /\ is_dead(agent_selection)
    /\ \E action \in Actions \ {None} : Raise("ValueError", action)

\* step for a dead agent: AECEnv._was_dead_step(None), then (graph variant
\* only) the resynchronisation of agent_selection.
StepDead ==
    /\ has_reset
    /\ agent_selection \in DOMAIN terminations
    /\ is_dead(agent_selection)
    /\ LET agent == agent_selection
           term1 == Del(terminations, agent)
           trunc1 == Del(truncations, agent)
           ags1 == Remove(agents, agent)
           deads == SelectSeq(ags1, LAMBDA a : term1[a] \/ trunc1[a])
           sel1 == IF deads # <<>> THEN deads[1]
                   ELSE IF _skip_agent_selection # None
                        THEN _skip_agent_selection
                        ELSE agent_selection
           skip1 == IF deads # <<>>
                    THEN (IF _skip_agent_selection = None
                          THEN agent_selection
                          ELSE _skip_agent_selection)
                    ELSE None
           resync == variant = "graph" /\ guard_resync(sel1, ags1)
       IN  /\ terminations' = term1
           /\ truncations' = trunc1
           /\ rewards' = _clear_rewards(Del(rewards, agent))
           /\ _cumulative_rewards' = Del(_cumulative_rewards, agent)
           /\ agents' = ags1
           /\ _skip_agent_selection' = skip1
           /\ IF resync
              THEN LET s == selector_next(ags1, _current_agent)
                   IN  /\ agent_selection' = s.selected
                       /\ _current_agent' = s.current
              ELSE /\ agent_selection' = sel1
                   /\ UNCHANGED _current_agent
           /\ log' = Append(log, <<agent, "dead", TRUE>>)
           /\ last_action' = None
    /\ outcome' = "dead"
    /\ StepCalled
    /\ UNCHANGED <<config, has_reset, collectors, points, cumulative_rewards,
                   terminate, truncate, iteration>>

\* step for a live agent with an action outside the action space.
StepInvalid ==
    /\ has_reset
    /\ agent_selection \in DOMAIN terminations
    /\ ~is_dead(agent_selection)
    /\ \E action \in Actions :
        /\ ~action_space_contains(ActionSpaceSize, action)
        /\ variant = "graph" => action # None
        /\ Raise("ValueError", action)

\* step() moving the agent to any node of the action space.
legal_move_any_node(g, cur_node, action) == action # None

\* step: "if action in neighbors and action is not None".
legal_move(g, cur_node, action) ==
    action # None /\ action \in neighbors(g, cur_node)

\* step of the graph variant for a live agent.
StepGraph(action) ==
    /\ variant = "graph"
    /\ has_reset
    /\ agent_selection \in DOMAIN terminations
    /\ ~is_dead(agent_selection)
    /\ action_space_contains(ActionSpaceSize, action) \/ action = None
    /\ LiveSteps < StepBound
    /\ LET agent == agent_selection
           collector == collectors[agent]
           cur_node == collector.label
           legal == legal_move(graph, cur_node, action)
           collects == legal /\ action \in DOMAIN points
           points1 == IF collects THEN point_collect(points, action) ELSE points
           moved == IF legal
                    THEN move(collector, _get_node_position(graph, action), action)
                    ELSE collector
           collector1 == IF collects THEN collect(moved, points[action]) ELSE moved
           r == IF legal
                THEN reward(graph, points_at_reward(points, points1), cur_node, action)
                ELSE 0
           term1 == update_terminations(terminations, agent,
                        collector1.total_points_collected, max_collect[agent])
           rewards1 == [rewards EXCEPT ![agent] = r]
           s == selector_next(agents, _current_agent)
       IN  IF legal /\ ~has_edge(graph, cur_node, action)
           THEN Raise("ValueError", action)
           ELSE /\ collectors' = [collectors EXCEPT ![agent] = collector1]
                /\ points' = points1
                /\ terminations' = term1
                /\ terminate' = All(term1)
                /\ truncate' = All(truncations)
                /\ iteration' = iteration + 1
                /\ rewards' = rewards1
                /\ cumulative_rewards' = [cumulative_rewards EXCEPT ![agent] = @ + r]
                /\ _cumulative_rewards' =
                     _accumulate_rewards([_cumulative_rewards EXCEPT ![agent] = 0],
                                         rewards1)
                /\ agent_selection' = s.selected
                /\ _current_agent' = s.current
                /\ log' = Append(log, <<agent, "live", term1[agent]>>)
                /\ last_action' = action
                /\ outcome' = "live"
                /\ StepCalled
                /\ UNCHANGED <<config, has_reset, agents, truncations,
                               _skip_agent_selection>>

\* step of the continuous variant for a live agent.
StepContinuous(action) ==
    /\ variant = "continuous"
    /\ has_reset
    /\ agent_selection \in DOMAIN terminations
    /\ ~is_dead(agent_selection)
    /\ action_space_contains(ActionSpaceSize, action)
    /\ LiveSteps < StepBound
    /\ LET agent == agent_selection
           collector == collectors[agent]
           point_position == point_positions[action + 1]
           points1 == point_collect(points, action)
           r == reward_c(collector.position, point_position,
                         points_at_reward(points, points1)[action])
           collector1 == collect([collector EXCEPT !.position = point_position],
                                 points[action])
           rewards1 == [rewards EXCEPT ![agent] = r]
           s == selector_next(agents, _current_agent)
           term1 == update_terminations(terminations, agent,
                        collector1.total_points_collected, max_collect[agent])
       IN  /\ collectors' = [collectors EXCEPT ![agent] = collector1]
           /\ points' = points1
           /\ rewards' = rewards1
           /\ agent_selection' = s.selected
           /\ _current_agent' = s.current
           /\ _cumulative_rewards' =
                _accumulate_rewards([_cumulative_rewards EXCEPT ![agent] = 0],
                                    rewards1)
           /\ terminations' = term1
           /\ terminate' = All(term1)
           /\ truncate' = All(truncations)
           /\ log' = Append(log, <<agent, "live", term1[agent]>>)
           /\ last_action' = action
    /\ outcome' = "live"
    /\ StepCalled
    /\ UNCHANGED <<config, has_reset, agents, truncations,
                   _skip_agent_selection, cumulative_rewards, iteration>>

Step ==
    \/ StepNotReset
    \/ StepPruned
    \/ StepDeadInvalid
    \/ StepDead
    \/ StepInvalid
    \/ \E action \in Actions : StepGraph(action)
    \/ \E action \in Actions : StepContinuous(action)

Next == Reset \/ Step

Spec == Init /\ [][Next]_vars

\* The same environment with four agents.
SpecFour == InitFour /\ [][Next]_vars

\* ------------------------------------- the graph variant and its other calls
\* raw_env.reward(cur_node, new_node) called directly.  Before the first reset
\* self.points is None and the test "new_node in self.points" raises.
CallReward(cur_node, new_node) ==
    /\ variant = "graph"
    /\ IF ~has_edge(graph, cur_node, new_node)
       THEN outcome' = "ValueError" /\ returned' = <<>>
       ELSE IF ~has_reset
            THEN outcome' = "TypeError" /\ returned' = <<>>
            ELSE /\ outcome' = "reward"
                 /\ returned' = <<reward(graph, points, cur_node, new_node)>>
    /\ reward_args' = <<cur_node, new_node>>
    /\ last_action' = None
    /\ resets' = 0
    /\ UNCHANGED <<config, frame>>

\* The edges the owner of the graph adds or removes between two calls
\* (static_graph = False): <<from, to, weight>>.
EdgeEdits == {<<1, 2, 3>>}

\* The record of a change of the graph made from outside the environment.
GraphEdited ==
    /\ outcome' = "edit"
    /\ last_action' = None
    /\ resets' = 0
    /\ reward_args' = <<>>
    /\ returned' = <<>>
    /\ UNCHANGED <<variant, point_labels, init_agent_labels, point_positions,
                   agent_positions, max_collect, possible_agents, frame>>

\* networkx add_edge(u, v, weight=w) on self.graph.
AddEdge ==
    /\ variant = "graph"
    /\ \E e \in EdgeEdits :
        /\ ~has_edge(graph, e[1], e[2])
        /\ graph' = [graph EXCEPT !.weight =
                        IF graph.directed
                        THEN (<<e[1], e[2]>> :> e[3]) @@ @
                        ELSE (<<e[1], e[2]>> :> e[3]) @@ (<<e[2], e[1]>> :> e[3]) @@ @]
    /\ GraphEdited

\* networkx remove_edge(u, v) on self.graph.
RemoveEdge ==
    /\ variant = "graph"
    /\ \E e \in EdgeEdits :
        /\ has_edge(graph, e[1], e[2])
        /\ LET gone == IF graph.directed
                       THEN {<<e[1], e[2]>>}
                       ELSE {<<e[1], e[2]>>, <<e[2], e[1]>>}
           IN  graph' = [graph EXCEPT !.weight =
                            [k \in (DOMAIN @) \ gone |-> @[k]]]
    /\ GraphEdited

\* The action mask computed from the agent's node at the last reset.
_get_action_mask_initial(agent) ==
    [n \in 0..(Cardinality(graph.nodes) - 1) |->
        IF n \in neighbors(graph, init_agent_labels[agent + 1]) THEN 1 ELSE 0]

\* raw_env._get_action_mask(agent): an array over the node labels.
_get_action_mask(agent) ==
    [n \in 0..(Cardinality(graph.nodes) - 1) |->
        IF n \in neighbors(graph, collectors[agent].label) THEN 1 ELSE 0]

\* ------------------------------------------------------------ observations
\* raw_env._state of either variant, without the rendered image: the arrays
\* are sequences in the order of the dicts and lists they are built from.
_state ==
    IF variant = "graph"
    THEN [graph |-> [e \in graph.nodes \X graph.nodes |->
                        IF e \in DOMAIN graph.weight THEN graph.weight[e] ELSE 0],
          point_labels |-> point_labels,
          collector_labels |->
              [i \in DOMAIN possible_agents |-> collectors[possible_agents[i]].label],
          collected |-> [i \in DOMAIN point_labels |-> points[point_labels[i]]]]
    ELSE [point_positions |-> point_positions,
          collected |-> [i \in 1..Cardinality(DOMAIN points) |-> points[i - 1]],
          collector_positions |->
              [i \in DOMAIN possible_agents |->
                  collectors[possible_agents[i]].position]]

\* observe() showing each agent its own collector only.
observe_own_collector(agent) ==
    IF variant = "graph"
    THEN [_state EXCEPT !.collector_labels = <<collectors[agent].label>>]
         @@ [action_mask |-> _get_action_mask(agent)]
    ELSE [_state EXCEPT !.collector_positions = <<collectors[agent].position>>]

\* raw_env.observe(agent): the state, and in the graph variant the agent's
\* action mask.
observe(agent) ==
    IF variant = "graph"
    THEN _state @@ [action_mask |-> _get_action_mask(agent)]
    ELSE _state

\* The mapping reset() returns, built in the state reset() leaves.
observations == [agent \in Range(agents) |-> observe(agent)]

\* One or two agents on a graph whose only point is node 2, each with a
\* budget of at least 1.
InitCalls ==
    /\ variant = "graph"
    /\ \E n \in {1, 2} :
        /\ possible_agents = [i \in 1..n |-> i - 1]
        /\ \E c \in {d \in GraphConfigs(n) : d.point_labels = <<2>>} :
            /\ graph = c.graph
            /\ point_labels = c.point_labels
            /\ init_agent_labels = c.init_agent_labels
        /\ max_collect \in [0..(n - 1) -> 1..MaxBudget]
    /\ point_positions = <<>>
    /\ agent_positions = <<>>
    /\ Constructed

NextCalls ==
    \/ Reset
    \/ StepNotReset
    \/ StepPruned
    \/ StepDeadInvalid
    \/ StepDead
    \/ StepInvalid
    \/ \E action \in Actions : StepGraph(action)
    \/ \E cur_node, new_node \in graph.nodes : CallReward(cur_node, new_node)
    \/ AddEdge
    \/ RemoveEdge

SpecCalls == InitCalls /\ [][NextCalls]_vars

\* ================================================================== claims
AgentIds == 0..3
ActionIds == 0..3

\* The last completed step of the episode.
Last == log[Len(log)]

\* This transition is a completed live step of agent a with action n.
LiveStepBy(a, n) ==
    /\ outcome' = "live"
    /\ Len(log') = Len(log) + 1
    /\ log'[Len(log')][1] = a
    /\ log'[Len(log')][2] = "live"
    /\ last_action' = n

\* This transition is a completed dead step of agent a.
DeadStepBy(a) ==
    /\ outcome' = "dead"
    /\ Len(log') = Len(log) + 1
    /\ log'[Len(log')][1] = a
    /\ log'[Len(log')][2] = "dead"

\* An agent counts as terminated when its flag is set or it has been pruned.
Terminated(a) == a \in DOMAIN terminations => terminations[a]

\* cheat_cost * caught_probability with the defaults 500 and 0.5.
ExpectedCheatingCost == 500 \div 2

\* C1: graph variant: a live agent at node c that submits a neighbour n of c
\* is recorded the reward -(w), w the weight of edge (c, n), when n is no
\* point or a point with collect_count 0 before the step, and
\* -(w + cheat_cost * caught_probability) when n is a point with
\* collect_count > 0 before the step.
C1_GraphReward ==
    [][\A a \in AgentIds, n \in ActionIds :
        (/\ variant = "graph"
         /\ LiveStepBy(a, n)
         /\ n \in neighbors(graph, collectors[a].label))
        => rewards'[a] =
             -(graph.weight[<<collectors[a].label, n>>]
               + (IF n \in Range(point_labels) /\ points[n] > 0
                  THEN ExpectedCheatingCost ELSE 0))]_vars

\* A re-collection over the self-loop of SpecGraph: reward -(1 + 250).
C1_Witness ==
    /\ variant = "graph"
    /\ outcome = "live"
    /\ log # <<>>
    /\ last_action = 2
    /\ collectors[Last[1]].cheated = 1
    /\ rewards[Last[1]] = -251

\* C2: after reset, an agent's terminated flag is true if and only if its
\* collector has total_points_collected >= max_collect[agent], for every
\* budget including 0 and including the state right after reset.
C2_TerminatedIffBudget ==
    has_reset =>
        \A a \in Range(possible_agents) :
            Terminated(a)
            <=> collectors[a].total_points_collected >= max_collect[a]

\* C3: within an episode, an agent whose terminated flag is true is never
\* seen with a false flag after a later step; only reset clears the flag.
C3_TerminatedStable ==
    [][(has_reset /\ outcome' # "reset")
        => \A a \in Range(possible_agents) :
            (a \in DOMAIN terminations /\ terminations[a])
            => (a \in DOMAIN terminations' => terminations'[a])]_vars

\* A terminated agent still holds its flag after another agent's live step.
C3_Witness ==
    /\ outcome = "live"
    /\ log # <<>>
    /\ \E a \in DOMAIN terminations :
        /\ terminations[a]
        /\ a # Last[1]
        /\ \E i \in 1..(Len(log) - 1) : log[i][1] = a /\ log[i][3]

\* C4: graph variant: whenever the active list is not empty after reset,
\* agent_selection is one of its members.
C4_GraphSelectionActive ==
    (variant = "graph" /\ has_reset /\ agents # <<>>)
        => agent_selection \in Range(agents)

\* The first agent of the turn order has just been pruned while another
\* agent is still alive.
C4_Witness ==
    /\ variant = "graph"
    /\ outcome = "dead"
    /\ log # <<>>
    /\ Last[1] = possible_agents[1]
    /\ \E a \in Range(agents) : ~terminations[a]
    /\ agent_selection \in Range(agents)

\* C5: continuous variant: whenever the active list is not empty after
\* reset, agent_selection is one of its members.
C5_ContinuousSelectionActive ==
    (variant = "continuous" /\ has_reset /\ agents # <<>>)
        => agent_selection \in Range(agents)

\* The live steps of agent a among the first j - 1 steps of the episode.
PrevLive(a, j) == {i \in 1..(j - 1) : log[i][1] = a /\ log[i][2] = "live"}
MaxOf(S) == CHOOSE x \in S : \A y \in S : y <= x

\* Agent b performed a live step among the steps i+1 .. j-1 of the episode.
ActedBetween(b, i, j) ==
    \E k \in (i + 1)..(j - 1) : log[k][1] = b /\ log[k][2] = "live"

\* Step k of the episode is the death of an agent other than a: its pruning
\* by a dead step, or the live step that set its terminated flag.
DiesAt(k, a) == log[k][1] # a /\ (log[k][2] = "dead" \/ log[k][3])

\* C6: in the sequence of live steps an agent never acts twice before every
\* other active (non-terminated) agent has acted once, except immediately
\* after another agent dies.
C6_RoundRobin ==
    (has_reset /\ log # <<>> /\ Last[2] = "live"
     /\ PrevLive(Last[1], Len(log)) # {})
    => LET j == Len(log)
           a == Last[1]
           i == MaxOf(PrevLive(a, j))
       IN  \/ DiesAt(j - 1, a)
           \/ \A b \in (DOMAIN terminations) \ {a} :
                ~terminations[b] => ActedBetween(b, i, j)

\* The traversal cost of agent a's move to n, and whether that move collects
\* a point, both read in the state before the step.
BaseCost(a, n) ==
    IF variant = "graph"
    THEN graph.weight[<<collectors[a].label, n>>]
    ELSE Norm(<<collectors[a].position[1] - point_positions[n + 1][1],
                collectors[a].position[2] - point_positions[n + 1][2]>>)

CollectsPoint(a, n) ==
    /\ n \in DOMAIN points
    /\ variant = "graph" => n \in neighbors(graph, collectors[a].label)

\* C7: in both variants the reward of a move onto point p is computed from
\* p's collect_count before this move's collection is recorded: a first
\* collection never carries the cheating penalty although the count is >= 1
\* after the step, and a move onto a point with prior count >= 1 always does.
C7_RewardBeforeCollect ==
    [][\A a \in AgentIds, n \in ActionIds :
        (LiveStepBy(a, n) /\ CollectsPoint(a, n))
        => /\ points'[n] >= 1
           /\ points[n] = 0 => rewards'[a] = -BaseCost(a, n)
           /\ points[n] >= 1
                => rewards'[a] = -(BaseCost(a, n) + ExpectedCheatingCost)]_vars

\* A first collection on the plane: the count is 1 and no penalty was paid.
C7_Witness ==
    /\ variant = "continuous"
    /\ outcome = "live"
    /\ points[last_action] = 1
    /\ rewards[Last[1]] < 0
    /\ rewards[Last[1]] > -ExpectedCheatingCost

\* C8: a collection of point p by collector c adds exactly 1 to
\* p.collect_count and to c.total_points_collected; if p had been collected
\* before (by anyone) it adds 1 to c.cheated and leaves
\* c.unique_points_collected, otherwise it adds 1 to
\* c.unique_points_collected and leaves c.cheated.
C8_CollectCounters ==
    [][\A a \in AgentIds, n \in ActionIds :
        (LiveStepBy(a, n) /\ CollectsPoint(a, n))
        => LET c == collectors[a]
               d == collectors'[a]
           IN  /\ points'[n] = points[n] + 1
               /\ d.total_points_collected = c.total_points_collected + 1
               /\ IF points[n] > 0
                  THEN /\ d.cheated = c.cheated + 1
                       /\ d.unique_points_collected = c.unique_points_collected
                  ELSE /\ d.unique_points_collected = c.unique_points_collected + 1
                       /\ d.cheated = c.cheated]_vars

\* A collector's first collection is of a point another agent collected.
C8_Witness ==
    /\ outcome = "live"
    /\ log # <<>>
    /\ last_action \in DOMAIN points
    /\ points[last_action] = 2
    /\ collectors[Last[1]].total_points_collected = 1
    /\ collectors[Last[1]].cheated = 1
    /\ collectors[Last[1]].unique_points_collected = 0

\* C9: after reset every collector has total_points_collected >=
\* unique_points_collected and cheated = total_points_collected -
\* unique_points_collected.
C9_CollectorCounts ==
    has_reset =>
        \A a \in DOMAIN collectors :
            /\ collectors[a].total_points_collected
                 >= collectors[a].unique_points_collected
            /\ collectors[a].cheated
                 = collectors[a].total_points_collected
                   - collectors[a].unique_points_collected

\* A collector that has a first collection and a re-collection behind it,
\* next to a collector that only cheated.
C9_Witness ==
    /\ has_reset
    /\ \E a \in DOMAIN collectors :
        /\ collectors[a].unique_points_collected = 1
        /\ collectors[a].cheated = 1
    /\ \E b \in DOMAIN collectors :
        /\ collectors[b].unique_points_collected = 0
        /\ collectors[b].cheated = 1

\* The selected agent is dead (terminated or truncated).
DeadSelected ==
    /\ has_reset
    /\ agent_selection \in DOMAIN terminations
    /\ terminations[agent_selection] \/ truncations[agent_selection]

CallValues == {None} \cup 0..4

\* This transition is a call step(n).
StepCall(n) ==
    /\ outcome' \in {"live", "dead", "ValueError", "KeyError", "AssertionError"}
    /\ reward_args' = <<>>
    /\ last_action' = n

\* Agent a is selected and alive.
LiveSelected(a) ==
    /\ has_reset
    /\ agent_selection = a
    /\ a \in DOMAIN terminations
    /\ ~terminations[a]
    /\ ~truncations[a]

\* The agent the scheduler hands out at cursor position c of the active list.
AtCursor(ags, c) == ags[IF c = 0 THEN Len(ags) ELSE c]

\* The successor of agent a in the configured cyclic order.
Successor(a) ==
    LET i == CHOOSE k \in DOMAIN possible_agents : possible_agents[k] = a
    IN  possible_agents[(i % Len(possible_agents)) + 1]

OutsideActionSpace(n) ==
    IF variant = "graph"
    THEN n # None /\ n \notin 0..(Cardinality(graph.nodes) - 1)
    ELSE n \notin 0..(Len(point_positions) - 1)

\* C12: a step by a live agent whose action lies outside the declared action
\* space (continuous: not a point index 0..P-1; graph: not None and not a node
\* label 0..N-1) fails with an error and leaves all episode state unchanged.
C12_InvalidActionRaises ==
    [][\A a \in AgentIds, n \in CallValues :
        (LiveSelected(a) /\ StepCall(n) /\ OutsideActionSpace(n))
        => /\ outcome' = "ValueError"
           /\ frame' = frame]_vars

\* An action outside the action space was refused in the middle of an
\* episode, after a point had been collected.
C12_Witness ==
    /\ outcome = "ValueError"
    /\ has_reset
    /\ agent_selection \in DOMAIN terminations
    /\ ~terminations[agent_selection]
    /\ OutsideActionSpace(last_action)
    /\ \E p \in DOMAIN points : points[p] > 0

\* C13: a step call made before reset has ever been called fails with an
\* error and changes no state (agent_selection stays undefined, has_reset
\* false); once reset has been called, has_reset stays true and step never
\* fails for this reason again.
C13_StepBeforeReset ==
    [][/\ \A n \in CallValues :
            (~has_reset /\ StepCall(n))
            => /\ outcome' = "AssertionError"
               /\ frame' = frame
               /\ agent_selection' = None
               /\ ~has_reset'
       /\ has_reset => (has_reset' /\ outcome' # "AssertionError")]_vars

\* A step has been refused on an environment that was never reset.
C13_Witness ==
    /\ ~has_reset
    /\ outcome = "AssertionError"
    /\ agent_selection = None
    /\ collectors = <<>>

\* The graph holds an edge from cur_node to new_node (in that direction).
EdgeFrom(cur_node, new_node) == <<cur_node, new_node>> \in DOMAIN graph.weight

\* C14: graph variant: reward(cur_node, new_node) fails with a usage error
\* whenever the graph has no edge from cur_node to new_node, returns a value
\* without failing whenever that edge exists, and never changes any state.
C14_RewardEdge ==
    [][\A cur_node, new_node \in ActionIds :
        (variant = "graph" /\ reward_args' = <<cur_node, new_node>>)
        => /\ IF EdgeFrom(cur_node, new_node)
              THEN outcome' = "reward" /\ returned' # <<>>
              ELSE outcome' = "ValueError"
           /\ frame' = frame
           /\ config' = config]_vars

\* C14 as amended: reward(cur_node, new_node) fails with a usage error
\* whenever the graph has no edge from cur_node to new_node; when the edge
\* exists it returns -(weight), or -(weight + cheat_cost * caught_probability)
\* for a collected point, once reset has been called, and fails with a
\* TypeError before the first reset (points is still None); it never changes
\* any state.
C14_RewardEdgeAfterReset ==
    [][\A cur_node, new_node \in ActionIds :
        (variant = "graph" /\ reward_args' = <<cur_node, new_node>>)
        => /\ IF ~EdgeFrom(cur_node, new_node)
              THEN outcome' = "ValueError"
              ELSE IF ~has_reset
                   THEN outcome' = "TypeError"
                   ELSE /\ outcome' = "reward"
                        /\ returned' =
                             <<-(graph.weight[<<cur_node, new_node>>]
                                 + (IF new_node \in DOMAIN points
                                       /\ points[new_node] > 0
                                    THEN ExpectedCheatingCost ELSE 0))>>
           /\ frame' = frame
           /\ config' = config]_vars

\* reward() was refused against the direction of an edge of a directed graph,
\* in an episode in which a point has been collected.
C14_Witness ==
    /\ variant = "graph"
    /\ has_reset
    /\ graph.directed
    /\ outcome = "ValueError"
    /\ reward_args # <<>>
    /\ EdgeFrom(reward_args[2], reward_args[1])
    /\ ~EdgeFrom(reward_args[1], reward_args[2])
    /\ \E p \in DOMAIN points : points[p] > 0

\* C15: graph variant: the action mask of observe(agent) has one entry per
\* node label, 1 exactly at the neighbours of the agent's current node in the
\* graph as it is at the time of the call and 0 elsewhere, also after an
\* external edge addition or removal and after the agent has moved.
C15_ActionMask ==
    (variant = "graph" /\ has_reset)
    => \A a \in DOMAIN collectors :
        /\ DOMAIN _get_action_mask(a) = graph.nodes
        /\ \A n \in graph.nodes :
            _get_action_mask(a)[n] =
                IF EdgeFrom(collectors[a].label, n) THEN 1 ELSE 0

\* An agent has moved from node 0 to node 1 and the edge from 1 to 2 has been
\* removed since: its mask shows node 0 alone on the undirected graph.
C15_Witness ==
    /\ variant = "graph"
    /\ has_reset
    /\ outcome = "edit"
    /\ ~EdgeFrom(1, 2)
    /\ \E a \in DOMAIN collectors :
        /\ collectors[a].label = 1
        /\ init_agent_labels[a + 1] = 0
        /\ _get_action_mask(a)[0] = 1
        /\ _get_action_mask(a)[2] = 0

\* C16: after reset, called in any reachable state, every collector is at
\* its configured initial placement with all counters 0, every point has
\* collect_count 0, agents is the full configured agent list in its original
\* order, agent_selection is the first agent, every per-agent
\* terminated/truncated flag is false, every reward and cumulative reward is
\* 0, and terminate and truncate are false.
C16_ResetState ==
    outcome = "reset"
    => /\ DOMAIN collectors = Range(possible_agents)
       /\ \A a \in Range(possible_agents) :
            /\ IF variant = "graph"
               THEN /\ collectors[a].label = init_agent_labels[a + 1]
                    /\ collectors[a].position
                         = _get_node_position(graph, init_agent_labels[a + 1])
               ELSE collectors[a].position = agent_positions[a + 1]
            /\ collectors[a].path = <<collectors[a].position>>
            /\ collectors[a].total_points_collected = 0
            /\ collectors[a].unique_points_collected = 0
            /\ collectors[a].cheated = 0
            /\ terminations[a] = FALSE
            /\ truncations[a] = FALSE
            /\ rewards[a] = 0
            /\ _cumulative_rewards[a] = 0
            /\ variant = "graph" => cumulative_rewards[a] = 0
       /\ DOMAIN points = IF variant = "graph" THEN Range(point_labels)
                          ELSE 0..(Len(point_positions) - 1)
       /\ \A p \in DOMAIN points : points[p] = 0
       /\ agents = possible_agents
       /\ agent_selection = possible_agents[1]
       /\ DOMAIN terminations = Range(possible_agents)
       /\ DOMAIN truncations = Range(possible_agents)
       /\ terminate = FALSE
       /\ truncate = FALSE

\* A reset issued while the agents of the last episode were being pruned (the
\* pruning had set _skip_agent_selection aside).
C16_Witness ==
    /\ outcome = "reset"
    /\ _skip_agent_selection # None
    /\ agents = possible_agents
    /\ \A p \in DOMAIN points : points[p] = 0

\* C17: calling reset twice in a row with no step in between returns the
\* same initial observations (point labels or positions, collected counts,
\* collector labels or positions, adjacency, action masks) as calling it once.
C17_ResetTwice ==
    [][(outcome = "reset" /\ outcome' = "reset" /\ resets' = 2)
        => observations' = observations]_vars

\* reset has been called twice in a row.
C17_Witness ==
    /\ outcome = "reset"
    /\ resets = 2
    /\ DOMAIN observations = Range(possible_agents)
    /\ \A a \in DOMAIN observations :
        \A i \in DOMAIN observations[a].collected :
            observations[a].collected[i] = 0

\* The fields of an observation that show the state.
StateFields(obs) == [f \in (DOMAIN obs) \ {"action_mask"} |-> obs[f]]

\* C18: the observation mapping returned by reset gives every agent the same
\* observation, in the graph variant including the action_mask field, also
\* when the agents start on different nodes.
C18_SameObservation ==
    outcome = "reset"
    => \A a, b \in DOMAIN observations : observations[a] = observations[b]

\* C18 as amended: the observations reset returns to any two agents agree in
\* every field that shows the state (in the continuous variant: in every
\* field); in the graph variant the action_mask field is the mask of the
\* agent's own initial node, so two agents get the same mask exactly when
\* their initial nodes have the same neighbours.
C18_SameStateFields ==
    outcome = "reset"
    => \A a, b \in DOMAIN observations :
        /\ StateFields(observations[a]) = StateFields(observations[b])
        /\ variant = "continuous" => observations[a] = observations[b]
        /\ variant = "graph"
            => /\ \A n \in graph.nodes :
                    observations[a].action_mask[n] =
                        IF EdgeFrom(init_agent_labels[a + 1], n) THEN 1 ELSE 0
               /\ (observations[a].action_mask = observations[b].action_mask)
                    <=> (neighbors(graph, init_agent_labels[a + 1])
                         = neighbors(graph, init_agent_labels[b + 1]))

\* Two agents that start on different nodes get different action masks next
\* to the same state.
C18_Witness ==
    /\ outcome = "reset"
    /\ variant = "graph"
    /\ \E a, b \in DOMAIN observations :
        /\ init_agent_labels[a + 1] # init_agent_labels[b + 1]
        /\ observations[a].action_mask # observations[b].action_mask
        /\ observations[a].collector_labels = observations[b].collector_labels

\* C19: in every state after reset, terminate is true if and only if every
\* configured agent is individually terminated, an agent pruned from the
\* per-agent mappings by a dead step counting as terminated; it is never true
\* while some agent is still able to act.
C19_EpisodeTerminated ==
    has_reset
    => /\ terminate <=> \A a \in Range(possible_agents) : Terminated(a)
       /\ terminate
            => ~\E a \in DOMAIN terminations :
                    ~terminations[a] /\ ~truncations[a]

\* The episode is terminated, one agent has been pruned and another one is
\* still waiting for its dead step.
C19_Witness ==
    /\ has_reset
    /\ outcome = "dead"
    /\ terminate
    /\ terminations # <<>>
    /\ Len(agents) < Len(possible_agents)
    /\ Len(possible_agents) >= 2

\* C20: with at least one configured agent, no sequence of reset and step
\* calls makes any agent's truncated flag true or makes truncate true,
\* including after dead steps have emptied the truncation mapping.
C20_NeverTruncated ==
    /\ \A a \in DOMAIN truncations : ~truncations[a]
    /\ ~truncate

\* Dead steps have emptied the truncation mapping of an episode with two or
\* more agents.
C20_Witness ==
    /\ has_reset
    /\ outcome = "dead"
    /\ DOMAIN truncations = {}
    /\ agents = <<>>
    /\ Len(possible_agents) >= 2
    /\ ~truncate

\* This transition is a call of step, with whatever action.
AnyStepCall == \E n \in CallValues : StepCall(n)

\* C21: exactly one agent acts per step call: a step in which agent a is
\* selected changes no other agent's collector and no other agent's
\* terminated flag, and changes the collect_count of at most one point, by
\* exactly +1.
C21_OneAgentActs ==
    [][(has_reset /\ AnyStepCall)
        => /\ \A b \in (DOMAIN collectors) \ {agent_selection} :
                /\ collectors'[b] = collectors[b]
                /\ b \in DOMAIN terminations
                    => /\ b \in DOMAIN terminations'
                       /\ terminations'[b] = terminations[b]
           /\ DOMAIN points' = DOMAIN points
           /\ \/ points' = points
              \/ \E p \in DOMAIN points :
                    points' = [points EXCEPT ![p] = @ + 1]]_vars

\* An agent has just collected a point while another agent, which collected
\* before and is terminated, kept its collector and its flag.
C21_Witness ==
    /\ outcome = "live"
    /\ log # <<>>
    /\ last_action \in DOMAIN points
    /\ collectors[Last[1]].total_points_collected >= 1
    /\ \E b \in (DOMAIN terminations) \ {Last[1]} :
        /\ terminations[b]
        /\ collectors[b].total_points_collected >= 1
    /\ \E c \in (DOMAIN terminations) \ {Last[1]} : ~terminations[c]

\* Agent a has been terminated in this episode: its flag is true, or it has
\* been pruned from the per-agent mappings.
Stopped(a) ==
    /\ has_reset
    /\ a \in DOMAIN collectors
    /\ a \in DOMAIN terminations => terminations[a]

\* C22: an agent permanently stops acting once terminated: from the state in
\* which its terminated flag becomes true until the next reset its collector
\* (label, position, path, counters) never changes, and no point's
\* collect_count changes on its turn, whatever actions are submitted.
C22_TerminatedStops ==
    [][\A a \in AgentIds :
        (Stopped(a) /\ outcome' # "reset")
        => /\ collectors'[a] = collectors[a]
           /\ agent_selection = a => points' = points]_vars

\* A terminated agent that had collected has been pruned by its dead step:
\* its collector still shows the counters it stopped at.
C22_Witness ==
    /\ outcome = "dead"
    /\ log # <<>>
    /\ Last[1] \notin DOMAIN terminations
    /\ collectors[Last[1]].total_points_collected = max_collect[Last[1]]
    /\ collectors[Last[1]].total_points_collected >= 1
    /\ \E b \in DOMAIN terminations : ~terminations[b]

\* C23: in both variants every reward recorded by step is <= 0 (edge weights,
\* distances and cheat_cost * caught_probability being non-negative): for
\* legal moves, re-collections, graph no-ops and after dead steps.
C23_RewardsNonPositive ==
    \A a \in DOMAIN rewards : rewards[a] <= 0

\* On the plane, a re-collection has been charged the distance and the
\* cheating cost while another agent's reward is 0.
C23_Witness ==
    /\ variant = "continuous"
    /\ outcome = "live"
    /\ rewards[Last[1]] < -ExpectedCheatingCost
    /\ \E b \in DOMAIN rewards : rewards[b] = 0

\* C24: continuous variant: every point index 0..P-1 is a legal action for a
\* live agent from any collector position; after a live step with action i
\* the acting collector is at point i's position, point i's collect_count has
\* grown by exactly 1, and the reward is -(distance from the collector's
\* previous position to point i, plus cheat_cost * caught_probability iff
\* point i's collect_count was > 0 before the step).
C24_ContinuousStep ==
    [][\A a \in AgentIds, i \in ActionIds :
        (/\ variant = "continuous"
         /\ LiveSelected(a)
         /\ StepCall(i)
         /\ i < Len(point_positions))
        => /\ outcome' = "live"
           /\ collectors'[a].position = point_positions[i + 1]
           /\ points'[i] = points[i] + 1
           /\ rewards'[a] =
                -(Norm(<<collectors[a].position[1] - point_positions[i + 1][1],
                         collectors[a].position[2] - point_positions[i + 1][2]>>)
                  + (IF points[i] > 0 THEN ExpectedCheatingCost ELSE 0))]_vars

\* A collector has crossed the plane from a point it had collected to a point
\* collected before: distance 5 and the cheating cost.
C24_Witness ==
    /\ variant = "continuous"
    /\ outcome = "live"
    /\ rewards[Last[1]] = -(5 + ExpectedCheatingCost)
    /\ collectors[Last[1]].position = point_positions[last_action + 1]
    /\ collectors[Last[1]].total_points_collected >= 2
    /\ points[last_action] >= 2

\* C25: graph variant: step never fails with the edge-not-found error of
\* reward(), in any reachable state, on directed and undirected graphs with
\* self-loops and isolated nodes, also after edges were added or removed, for
\* any action of the action space: a step of a live agent with such an action
\* (or None) completes.
C25_StepFindsEdge ==
    [][\A a \in AgentIds, n \in CallValues :
        (/\ variant = "graph"
         /\ LiveSelected(a)
         /\ StepCall(n)
         /\ n = None \/ n \in graph.nodes)
        => /\ outcome' = "live"
           /\ collectors'[a].label # collectors[a].label
                => EdgeFrom(collectors[a].label, n)]_vars

\* On the directed graph an agent named the node an edge comes from: it
\* stayed where it was and the step completed.
C25_Witness ==
    /\ variant = "graph"
    /\ graph.directed
    /\ outcome = "live"
    /\ last_action # None
    /\ EdgeFrom(last_action, collectors[Last[1]].label)
    /\ ~EdgeFrom(collectors[Last[1]].label, last_action)
    /\ rewards[Last[1]] = 0

\* C26: graph variant, the graph unchanged between observe and step: for the
\* selected live agent an action whose entry in the agent's action mask is 1
\* makes the collector's label that action, and an action whose entry is 0
\* leaves the label as it is: the mask and the legality test of step agree on
\* every node label.
C26_MaskAgreesWithStep ==
    [][\A a \in AgentIds, n \in ActionIds :
        (/\ variant = "graph"
         /\ LiveSelected(a)
         /\ StepCall(n)
         /\ n \in graph.nodes)
        => /\ outcome' = "live"
           /\ _get_action_mask(a)[n] \in {0, 1}
           /\ _get_action_mask(a)[n] = 1 => collectors'[a].label = n
           /\ _get_action_mask(a)[n] = 0
                => collectors'[a].label = collectors[a].label]_vars

\* An agent that had moved before has moved again to a node of its mask.
C26_Witness ==
    /\ variant = "graph"
    /\ outcome = "live"
    /\ last_action # None
    /\ collectors[Last[1]].label = last_action
    /\ Len(collectors[Last[1]].path) >= 3
    /\ collectors[Last[1]].path[Len(collectors[Last[1]].path) - 1]
         # collectors[Last[1]].position

\* C27: within one episode the active list agents only shrinks: a step
\* removes at most one agent, the removed agent is the selected agent and is
\* already terminated or truncated, a live agent is never removed, the order
\* of the remaining agents is preserved, and a removed agent does not
\* reappear before the next reset.
C27_AgentsShrink ==
    [][(has_reset /\ outcome' # "reset")
        => \/ agents' = agents
           \/ /\ agent_selection \in Range(agents)
              /\ terminations[agent_selection] \/ truncations[agent_selection]
              /\ agents' = SelectSeq(agents, LAMBDA b : b # agent_selection)
              /\ Len(agents') = Len(agents) - 1]_vars

\* The second of three agents has been pruned: the first and the third are
\* left, in their order.
C27_Witness ==
    /\ outcome = "dead"
    /\ Len(possible_agents) = 3
    /\ agents = <<possible_agents[1], possible_agents[3]>>
    /\ Last[1] = possible_agents[2]

\* Sequence s is a prefix of sequence t.
IsPrefix(s, t) == Len(s) <= Len(t) /\ SubSeq(t, 1, Len(s)) = s

\* C28: graph variant: within one episode a collector's path is append-only:
\* its length never decreases, it grows by exactly one entry (the
\* destination) on every committed move of that collector, and it is
\* unchanged by no-op actions, by dead steps and by other agents' steps.
C28_PathAppendOnly ==
    [][(variant = "graph" /\ has_reset /\ outcome' # "reset")
        => \A b \in DOMAIN collectors :
            /\ IsPrefix(collectors[b].path, collectors'[b].path)
            /\ IF /\ outcome' = "live"
                  /\ b = agent_selection
                  /\ last_action' # None
                  /\ EdgeFrom(collectors[b].label, last_action')
               THEN collectors'[b].path
                      = Append(collectors[b].path,
                               _get_node_position(graph, last_action'))
               ELSE collectors'[b].path = collectors[b].path]_vars

\* A collector has made two moves: its path holds its start and both
\* destinations, the last one being where it is.
C28_Witness ==
    /\ variant = "graph"
    /\ outcome = "live"
    /\ Len(collectors[Last[1]].path) = 3
    /\ collectors[Last[1]].path[3] = collectors[Last[1]].position
    /\ collectors[Last[1]].path[1]
         = _get_node_position(graph, init_agent_labels[Last[1] + 1])

\* C29: continuous variant: while the episode is not over (an active agent
\* is not terminated), a step call made with a valid point index for a live
\* selected agent, and with None for a selected agent that is not alive,
\* succeeds: it completes as a live step or as a dead step.
C29_EveryStepSucceeds ==
    [][(/\ variant = "continuous"
        /\ has_reset
        /\ \E a \in Range(agents) : ~terminations[a]
        /\ AnyStepCall
        /\ IF LiveSelected(agent_selection)
           THEN last_action' \in 0..(Len(point_positions) - 1)
           ELSE last_action' = None)
        => outcome' \in {"live", "dead"}]_vars

\* C30: after reset no collector's total_points_collected exceeds its
\* agent's budget max_collect[agent], for every non-negative budget.
C30_WithinBudget ==
    has_reset =>
        \A a \in DOMAIN collectors :
            collectors[a].total_points_collected <= max_collect[a]

\* The sum of val[k] over the keys k in S.
RECURSIVE SumOver(_, _)
SumOver(val, S) ==
    IF S = {} THEN 0
    ELSE LET k == CHOOSE x \in S : TRUE
         IN  val[k] + SumOver(val, S \ {k})

\* C31: after reset the sum of collect_count over all points equals the sum
\* of total_points_collected over all collectors, and the number of points
\* with collect_count >= 1 equals the sum of unique_points_collected over
\* all collectors.
C31_CountsBalance ==
    has_reset =>
        /\ SumOver(points, DOMAIN points)
             = SumOver([a \in DOMAIN collectors |->
                          collectors[a].total_points_collected],
                       DOMAIN collectors)
        /\ Cardinality({k \in DOMAIN points : is_collected(points[k])})
             = SumOver([a \in DOMAIN collectors |->
                          collectors[a].unique_points_collected],
                       DOMAIN collectors)

\* Two collectors have collected the same point, one of them twice, and one
\* of them another point: three collections of two distinct points.
C31_Witness ==
    /\ has_reset
    /\ \E k \in DOMAIN points : points[k] = 2
    /\ \E k \in DOMAIN points : points[k] = 1
    /\ \E a, b \in DOMAIN collectors :
        /\ a # b
        /\ collectors[a].unique_points_collected >= 1
        /\ collectors[b].unique_points_collected = 0
        /\ collectors[b].total_points_collected >= 1

\* The first agent of ags that follows agent d in the configured cyclic order.
FirstActiveAfter(d, ags) ==
    LET n == Len(possible_agents)
        i == CHOOSE k \in DOMAIN possible_agents : possible_agents[k] = d
        at(k) == possible_agents[((i - 1 + k) % n) + 1]
        first == CHOOSE k \in 1..n :
                    /\ at(k) \in Range(ags)
                    /\ \A j \in 1..(k - 1) : at(j) \notin Range(ags)
    IN  at(first)

\* C32: graph variant: when a dead step prunes agent d and no other dead
\* agent is waiting to be pruned, the agent selected next is the first live
\* agent that follows d in the configured cyclic order.
C32_NextAfterPruning ==
    [][\A d \in AgentIds :
        (/\ variant = "graph"
         /\ DeadStepBy(d)
         /\ agents' # <<>>
         /\ \A b \in Range(agents') : ~terminations'[b] /\ ~truncations'[b])
        => agent_selection' = FirstActiveAfter(d, agents')]_vars

\* The scheduler of a run that starts with reset() on a newly constructed
\* environment: active list, cursor, selection, skipped selection and flags.
FreshScheduler ==
    LET s == selector_next(possible_agents, 0)
    IN  [agents |-> possible_agents, current |-> s.current,
         selection |-> s.selected, skip |-> None,
         terminations |-> [a \in Range(possible_agents) |-> FALSE]]

\* The scheduler after one more step of the graph variant, the step being
\* the log entry e: a live step that left the agent's terminated flag at e[3],
\* or a dead step.
ScheduleStep(st, e) ==
    IF e[2] = "live"
    THEN LET s == selector_next(st.agents, st.current)
         IN  [st EXCEPT !.terminations[st.selection] = e[3],
                        !.selection = s.selected,
                        !.current = s.current]
    ELSE LET term1 == Del(st.terminations, st.selection)
             ags1 == Remove(st.agents, st.selection)
             deads == SelectSeq(ags1, LAMBDA a : term1[a])
             sel1 == IF deads # <<>> THEN deads[1]
                     ELSE IF st.skip # None THEN st.skip ELSE st.selection
             skip1 == IF deads # <<>>
                      THEN (IF st.skip = None THEN st.selection ELSE st.skip)
                      ELSE None
             s == selector_next(ags1, st.current)
         IN  IF guard_resync(sel1, ags1)
             THEN [agents |-> ags1, current |-> s.current,
                   selection |-> s.selected, skip |-> skip1,
                   terminations |-> term1]
             ELSE [agents |-> ags1, current |-> st.current,
                   selection |-> sel1, skip |-> skip1,
                   terminations |-> term1]

\* The scheduler of the run without history after the first k steps of the
\* current episode.
RECURSIVE FreshRun(_)
FreshRun(k) ==
    IF k = 0 THEN FreshScheduler ELSE ScheduleStep(FreshRun(k - 1), log[k])

\* C33: graph variant: the behaviour after reset does not depend on the
\* history before it: after the same steps, and while an active agent is
\* still alive, the selected agent is the one selected in the run that starts
\* with reset on a new environment.
C33_ResetForgetsHistory ==
    (/\ variant = "graph"
     /\ has_reset
     /\ \E a \in Range(agents) : ~terminations[a])
        => agent_selection = FreshRun(Len(log)).selection

\* The step calls completed since agent a's last live step of the episode
\* (since reset when it has not acted yet).
Waited(a) ==
    LET S == {i \in DOMAIN log : log[i][1] = a /\ log[i][2] = "live"}
    IN  Len(log) - (IF S = {} THEN 0 ELSE MaxOf(S))

\* The step calls a live agent waits at most: two rounds of the other agents.
MaxWait == 2 * (Len(possible_agents) - 1)

\* This transition is a step call of the graph variant with None for a
\* selected agent that is not alive and None or an action of the action
\* space for a live one.
DrivenGraphStep ==
    /\ variant = "graph"
    /\ has_reset
    /\ AnyStepCall
    /\ IF LiveSelected(agent_selection)
       THEN last_action' \in {None} \cup 0..(ActionSpaceSize - 1)
       ELSE last_action' = None

\* After this transition no live agent that is not selected has waited more
\* than MaxWait step calls.
NobodyStarved ==
    \A a \in Range(agents') :
        (~terminations'[a] /\ agent_selection' # a) => Waited(a)' <= MaxWait

\* C34 as stated: graph variant: every such step call succeeds, whatever is
\* left of the active list, and leaves no live agent waiting beyond the bound.
C34_NeverFails ==
    [][DrivenGraphStep
        => (outcome' \in {"live", "dead"} /\ NobodyStarved)]_vars

\* C34: graph variant: while the active list is not empty, every such step
\* call succeeds (no KeyError, no ValueError), the agent selected after it
\* is on the active list, and every live agent that is not selected has
\* waited at most MaxWait step calls since its last live step.
C34_NoStarvation ==
    [][(DrivenGraphStep /\ agents # <<>>)
        => /\ outcome' \in {"live", "dead"}
           /\ agents' # <<>> => agent_selection' \in Range(agents')
           /\ NobodyStarved]_vars

\* A live agent that is not selected has been waiting for three step calls,
\* one of them the dead step that pruned another agent.
C34_Witness ==
    /\ variant = "graph"
    /\ outcome = "live"
    /\ Len(possible_agents) = 3
    /\ \E a \in Range(agents) :
        /\ ~terminations[a]
        /\ agent_selection # a
        /\ Waited(a) = 3
        /\ \E i \in (Len(log) - 2)..Len(log) : log[i][2] = "dead"

\* No agent has been pruned in this episode: rewards[a] is then the reward
\* agent a recorded on its own most recent step, 0 if it has not acted yet.
NoDeadStepYet == \A i \in DOMAIN log : log[i][2] = "live"

\* C35: with two or more agents, whenever a live agent a is selected to act,
\* _cumulative_rewards[a] equals the reward a received on its own most
\* recent step (0 if it has not acted yet).
C35_CumulativeSinceLastAct ==
    (/\ Len(possible_agents) >= 2
     /\ LiveSelected(agent_selection)
     /\ NoDeadStepYet)
        => _cumulative_rewards[agent_selection] = rewards[agent_selection]

====
